---- MODULE Spec2Model ----
(***************************************************************************)
(* Guardian-AI: the persistent chunk store kept by legal_tool.py           *)
(* (ingestion with content-hash deduplication, reset with retry and        *)
(* rename-aside, retrieval filtered by source document, introspection).    *)
(*                                                                         *)
(* Every public function of legal_tool.py is one action.  What the         *)
(* environment decides during a call (whether shutil.rmtree or os.rename   *)
(* fails, whether the id lookup raises, how the similarity search ranks)   *)
(* is chosen with \E inside the action.  The variable `last` records what  *)
(* the most recent call did and returned.                                  *)
(***************************************************************************)
EXTENDS Integers, Sequences, FiniteSets, TLC

(* ------------------------------ bounds --------------------------------- *)

\* Distinct chunk texts a document can be made of.
NumContents == 3

\* The largest explicit result limit k given to query_all_pdfs.
MaxK == 3

\* Directories renamed aside that the model lets accumulate.
MaxBackups == 1

\* Distinct one-chunk documents' texts in the library of SpecLibrary.
NumLibraryContents == 6

\* The longest text the auditor stage returns, in characters.
MaxOutputLen == 5

(* ------------------------- program constants --------------------------- *)

\* legal_tool.py:44  max_retries = 3
max_retries == 3

\* legal_tool.py:133  search_kwargs={"k": 20}
PoolSize == 20

\* legal_tool.py:139 and :145  [:5]
ResultLimit == 5

\* legal_tool.py:185  k: int = 10
DefaultK == 10

(* ------------------------------ inputs --------------------------------- *)

Contents == 1..NumContents

\* File paths, as sequences of characters.  "a" and "d/ba" have different
\* basenames, yet the second ends with the basename of the first.
Paths == { <<"a">>, <<"d", "/", "b", "a">> }

\* The text of a document after splitting: chunks lo..hi in order.
Run(lo, hi) == [i \in 1..(hi - lo + 1) |-> lo + i - 1]

\* Documents' chunk texts: every contiguous run of the contents, and for
\* each content a document that holds it twice (two identical chunks).
Texts ==
    { Run(r[1], r[2]) : r \in { q \in Contents \X Contents : q[1] <= q[2] } }
        \cup { <<c, c>> : c \in Contents }

\* What is found at a path when it is loaded.
Pdfs == [path : Paths, text : Texts]

\* A question stands for the ranking the similarity search gives it.
Questions == {0, 1}

\* Result limits query_all_pdfs is called with: small ones, and the default.
Ks == (1..MaxK) \cup {DefaultK}

(* ---------------------------- pure helpers ----------------------------- *)

\* os.path.basename: what follows the last "/".
Basename(p) ==
    LET slashes == { i \in 1..Len(p) : p[i] = "/" }
        from == IF slashes = {} THEN 1
                ELSE (CHOOSE i \in slashes : \A j \in slashes : j <= i) + 1
    IN  SubSeq(p, from, Len(p))

\* str.endswith
EndsWith(s, t) ==
    /\ Len(t) <= Len(s)
    /\ SubSeq(s, Len(s) - Len(t) + 1, Len(s)) = t

\* hashlib.sha256(text).hexdigest()[:16]: a deterministic digest, taken as
\* collision-free on the texts of the model (an injection into the id space
\* that is not the identity).
Fingerprint(content) == (7 * content + 3) % 16

\* PyPDFLoader + RecursiveCharacterTextSplitter: the chunks of a document,
\* in order, each carrying metadata.source = the path that was loaded.
SplitDocuments(pdf) ==
    [i \in 1..Len(pdf.text) |->
        [page_content |-> pdf.text[i], metadata |-> [source |-> pdf.path]]]

\* chunk_ids: the fingerprint of each chunk, in chunk order.
ChunkIds(chunks) == [i \in 1..Len(chunks) |-> Fingerprint(chunks[i].page_content)]

Range(s) == { s[i] : i \in 1..Len(s) }

HasDuplicates(s) == \E i, j \in 1..Len(s) : i < j /\ s[i] = s[j]

\* s[:n]
Take(s, n) == SubSeq(s, 1, IF Len(s) < n THEN Len(s) ELSE n)

(* ------------------------ the vector store ----------------------------- *)
(* A store entry is [id, page_content, metadata].  The collection is kept   *)
(* as a set of entries; the operators below are the Chroma calls the code  *)
(* makes.                                                                  *)

\* vectorstore._collection.count()
Count(entries) == Cardinality(entries)

StoredIds(entries) == { e.id : e \in entries }

\* vectorstore._collection.get(ids=chunk_ids, include=[])['ids']
GetIds(entries, ids) == StoredIds(entries) \cap Range(ids)

\* The entry an upsert of parallel lists (documents, ids) leaves for each
\* id: the last document submitted under that id.
UpsertedEntries(documents, ids) ==
    { [id |-> ids[i],
       page_content |-> documents[i].page_content,
       metadata |-> documents[i].metadata] :
         i \in { j \in 1..Len(ids) : \A k \in (j + 1)..Len(ids) : ids[k] # ids[j] } }

\* collection.upsert, which add_documents and from_documents end in: an
\* entry with a submitted id is replaced, every other entry is kept.
Upsert(entries, documents, ids) ==
    { e \in entries : e.id \notin Range(ids) } \cup UpsertedEntries(documents, ids)

\* The order the similarity search gives the ids for a question.
Score(question, id) == ((id + 1) * (question + 1)) % 17

RECURSIVE Ranked(_, _)
Ranked(entries, question) ==
    IF entries = {} THEN <<>>
    ELSE LET best == CHOOSE e \in entries :
                        \A f \in entries : Score(question, e.id) <= Score(question, f.id)
         IN  <<best>> \o Ranked(entries \ {best}, question)

\* vectorstore.as_retriever(search_kwargs={"k": k}).invoke(question)
SimilaritySearch(entries, question, k) == Take(Ranked(entries, question), k)

(* ------------------------------ state ---------------------------------- *)

VARIABLES
    dir,        \* CHROMA_DB_DIR on disk: "absent", "intact", or "partial"
                \* (a failed rmtree removed part of it)
    store,      \* the entries of the collection persisted in CHROMA_DB_DIR
    backups,    \* directories renamed aside so far (MaxBackups: that or more)
    last        \* what the most recent call did and how it ended

vars == <<dir, store, backups, last>>

NoPdf == [path |-> <<>>, text |-> <<>>]

\* The record of a call, before the call fills it in.
NoCall ==
    [ op |-> "none", outcome |-> "none",
      pdf |-> NoPdf, use_existing_db |-> FALSE, filter_by_current_pdf |-> FALSE,
      k |-> 0,
      dir_before |-> "absent", store_before |-> {},
      again |-> FALSE,
      rmtree |-> <<>>, rename |-> "none", aside |-> "none", aside_store |-> {},
      cause |-> "none",
      loaded |-> FALSE, branch |-> "none", lookup_failed |-> FALSE,
      chunk_ids |-> <<>>, existing_ids |-> {},
      submitted |-> FALSE, new_chunks |-> <<>>, new_chunk_ids |-> <<>>,
      duplicates_skipped |-> 0, total_chunks |-> 0,
      all_relevant_docs |-> <<>>, relevant_docs |-> <<>>, used_fallback |-> FALSE,
      chunk_distribution |-> <<>>,
      ret |-> [type |-> "none", value |-> 0] ]

\* A store some other writer left at CHROMA_DB_DIR: an entry under an id
\* that is no fingerprint, whose metadata has no "source" key (the code
\* reads metadata with .get('source', '') and 'source' in doc.metadata).
ForeignStore == { [id |-> 0, page_content |-> 1, metadata |-> [page |-> 0]] }

\* The process starts with whatever is on disk: no store, or one left by an
\* earlier run or another writer.
Init ==
    /\ \/ dir = "absent" /\ store = {}
       \/ dir = "intact" /\ store = ForeignStore
    /\ backups = 0
    /\ last = NoCall

\* No call is in progress and no result is waiting to be taken.
Idle == last.op = "none"

\* The caller takes what the call returned or raised; the next call starts
\* from what is on disk.
Return ==
    /\ ~Idle
    /\ last' = NoCall
    /\ UNCHANGED <<dir, store, backups>>

(* ------------------------- legal_analyst_tool -------------------------- *)

\* legal_tool.py:51  the retry test inside `except PermissionError`
RetryAgain(attempt) == attempt < max_retries - 1

\* legal_tool.py:45-62  the deletion loop from iteration `attempt` on, with
\* the directory in state d: every way it can end.  rmtree may succeed,
\* raise PermissionError, or raise another error; a failing rmtree leaves
\* the directory as it was or partly removed.  os.rename may fail.
RECURSIVE DeleteLoop(_, _, _)
DeleteLoop(attempt, d, trace) ==
    IF attempt >= max_retries
    THEN { [end |-> "exhausted", dir |-> d, rmtree |-> trace,
            rename |-> "none", aside |-> "none"] }
    ELSE
        { [end |-> "deleted", dir |-> "absent", rmtree |-> Append(trace, "ok"),
           rename |-> "none", aside |-> "none"] }
        \cup
        { [end |-> "OSError", dir |-> d2, rmtree |-> Append(trace, "OSError"),
           rename |-> "none", aside |-> "none"] :
             d2 \in {d, "partial"} }
        \cup
        UNION { IF RetryAgain(attempt)
                THEN DeleteLoop(attempt + 1, d2, Append(trace, "PermissionError"))
                ELSE { [end |-> "renamed", dir |-> "absent",
                        rmtree |-> Append(trace, "PermissionError"),
                        rename |-> "ok", aside |-> d2],
                       [end |-> "StoreUnavailable", dir |-> d2,
                        rmtree |-> Append(trace, "PermissionError"),
                        rename |-> "failed", aside |-> "none"] } :
                  d2 \in {d, "partial"} }

\* Raises with `except Exception: pass` around rmtree: an error that is no
\* PermissionError is dropped and the call goes on.
Raises_DropsOtherErrors(end) == end = "StoreUnavailable"

\* Raises with the failure of os.rename dropped: the call goes on.
Raises_DropsRenameFailure(end) == end = "OSError"

\* legal_tool.py:47-62  the ends of the deletion loop that raise out of the
\* call; after the others the call goes on to load the document
Raises(end) == end \in {"OSError", "StoreUnavailable"}

\* zip(chunks, chunk_ids)
Zip(chunks, chunk_ids) ==
    [i \in 1..(IF Len(chunks) < Len(chunk_ids) THEN Len(chunks) ELSE Len(chunk_ids)) |->
        <<chunks[i], chunk_ids[i]>>]

\* NewPairs filtering the chunks alone and pairing what is left with the
\* ids from the front of chunk_ids.
NewPairs_FiltersChunksOnly(chunks, chunk_ids, existing_ids) ==
    LET kept == SelectSeq(Zip(chunks, chunk_ids), LAMBDA pair : pair[2] \notin existing_ids)
    IN  Zip([i \in 1..Len(kept) |-> kept[i][1]], chunk_ids)

\* legal_tool.py:97-102  the (chunk, chunk_id) pairs kept as new
NewPairs(chunks, chunk_ids, existing_ids) ==
    SelectSeq(Zip(chunks, chunk_ids), LAMBDA pair : pair[2] \notin existing_ids)

\* legal_tool.py:91-95  existing_ids; a failing lookup is caught and read
\* as "none of the ids exists"
ExistingIds(entries, chunk_ids, lookup_failed) ==
    IF lookup_failed THEN {} ELSE GetIds(entries, chunk_ids)

\* The store's answer to a batch (add_documents, from_documents): the batch
\* is upserted; a batch that names an id twice is either refused as a whole
\* (DuplicateIDError) or upserted, by the store's version.
SubmitBatch(entries, documents, ids) ==
    { [raised |-> FALSE, store |-> Upsert(entries, documents, ids)] }
    \cup
    (IF HasDuplicates(ids) THEN { [raised |-> TRUE, store |-> entries] } ELSE {})

\* legal_tool.py:66-123  load, split, fingerprint, then accumulate into the
\* store that is there or create a new one: every way this can end, as the
\* call record and the directory and store it leaves.
Ingest(call, pdf, use_existing_db, d, entries) ==
    LET chunks == SplitDocuments(pdf)
        chunk_ids == ChunkIds(chunks)
        loaded == [call EXCEPT !.loaded = TRUE, !.chunk_ids = chunk_ids]
    IN  IF d # "absent" /\ use_existing_db
        THEN IF d = "partial"
             THEN \* Chroma(persist_directory=...) on a half-deleted directory
                  { [dir |-> d, store |-> entries,
                     call |-> [loaded EXCEPT !.branch = "accumulate",
                                             !.outcome = "StoreOpenFailure"]] }
             ELSE UNION {
                    LET existing_ids == ExistingIds(entries, chunk_ids, lookup_failed)
                        pairs == NewPairs(chunks, chunk_ids, existing_ids)
                        new_chunks == [i \in 1..Len(pairs) |-> pairs[i][1]]
                        new_chunk_ids == [i \in 1..Len(pairs) |-> pairs[i][2]]
                        rec == [loaded EXCEPT
                                  !.branch = "accumulate",
                                  !.lookup_failed = lookup_failed,
                                  !.existing_ids = existing_ids,
                                  !.new_chunks = new_chunks,
                                  !.new_chunk_ids = new_chunk_ids,
                                  !.duplicates_skipped = Len(chunks) - Len(new_chunks)]
                    IN  IF new_chunks # <<>>
                        THEN { [dir |-> d, store |-> r.store,
                                call |-> [rec EXCEPT
                                    !.submitted = TRUE,
                                    !.outcome = IF r.raised THEN "DuplicateIDError"
                                                ELSE "return"]] :
                                 r \in SubmitBatch(entries, new_chunks, new_chunk_ids) }
                        ELSE { [dir |-> d, store |-> entries,
                                call |-> [rec EXCEPT !.outcome = "return"]] }
                    : lookup_failed \in BOOLEAN }
        ELSE \* Chroma.from_documents: opens (creates) the store, then adds
             { [dir |-> "intact", store |-> r.store,
                call |-> [loaded EXCEPT
                    !.branch = "create",
                    !.submitted = TRUE,
                    !.new_chunks = chunks,
                    !.new_chunk_ids = chunk_ids,
                    !.outcome = IF r.raised THEN "DuplicateIDError" ELSE "return"]] :
                 r \in SubmitBatch(entries, chunks, chunk_ids) }

\* doc.metadata.get('source', '')
SourceOf(doc) ==
    IF "source" \in DOMAIN doc.metadata THEN doc.metadata.source ELSE <<>>

\* RelevantToCurrentPdf with `[-5:]` for `[:5]`.
RelevantToCurrentPdf_LastFive(all_relevant_docs, current_pdf_name) ==
    LET matching == SelectSeq(all_relevant_docs,
                              LAMBDA doc : EndsWith(SourceOf(doc), current_pdf_name))
    IN  SubSeq(matching,
               IF Len(matching) > ResultLimit THEN Len(matching) - ResultLimit + 1 ELSE 1,
               Len(matching))

\* legal_tool.py:136-139  the candidates of the current PDF, at most 5
RelevantToCurrentPdf(all_relevant_docs, current_pdf_name) ==
    Take(SelectSeq(all_relevant_docs,
                   LAMBDA doc : EndsWith(SourceOf(doc), current_pdf_name)),
         ResultLimit)

\* UseFallback with `if len(relevant_docs) < 5` for `if relevant_docs`.
UseFallback_WhenFewerThanLimit(relevant_docs) == Len(relevant_docs) < ResultLimit

\* legal_tool.py:141-145  fall back to the first 5 candidates when the
\* filter kept nothing
UseFallback(relevant_docs) == relevant_docs = <<>>

\* legal_tool.py:130-148  the documents the answer is built from
Retrieve(call, entries, pdf, question, filter_by_current_pdf) ==
    IF filter_by_current_pdf
    THEN LET current_pdf_name == Basename(pdf.path)
             all_relevant_docs == SimilaritySearch(entries, question, PoolSize)
             relevant_docs == RelevantToCurrentPdf(all_relevant_docs, current_pdf_name)
         IN  [call EXCEPT
                !.all_relevant_docs = all_relevant_docs,
                !.used_fallback = UseFallback(relevant_docs),
                !.relevant_docs = IF UseFallback(relevant_docs)
                                  THEN Take(all_relevant_docs, ResultLimit)
                                  ELSE relevant_docs]
    ELSE [call EXCEPT
            !.relevant_docs = SimilaritySearch(entries, question, ResultLimit)]

\* legal_tool.py:66-172  what follows the lifecycle decision
IngestAndAnswer(call, pdf, question, use_existing_db, filter_by_current_pdf, d, entries) ==
    \E ing \in Ingest(call, pdf, use_existing_db, d, entries) :
        /\ dir' = ing.dir
        /\ store' = ing.store
        /\ last' = IF ing.call.outcome = "return"
                   THEN [Retrieve(ing.call, ing.store, pdf, question, filter_by_current_pdf)
                            EXCEPT !.total_chunks = Count(ing.store),
                                   !.ret = [type |-> "str", value |-> "answer"]]
                   ELSE ing.call

\* legal_tool.py:15-172  one call; `again` marks a call the caller makes
\* right after an ingestion of the same document
LegalAnalystToolCall(pdf, question, use_existing_db, filter_by_current_pdf, again) ==
    LET call == [NoCall EXCEPT
                    !.op = "legal_analyst_tool",
                    !.pdf = pdf,
                    !.use_existing_db = use_existing_db,
                    !.filter_by_current_pdf = filter_by_current_pdf,
                    !.again = again,
                    !.dir_before = dir,
                    !.store_before = store]
    IN  IF dir # "absent" /\ ~use_existing_db
        THEN \E del \in DeleteLoop(0, dir, <<>>) :
                LET deleting == [call EXCEPT
                                    !.rmtree = del.rmtree,
                                    !.rename = del.rename,
                                    !.aside = del.aside,
                                    !.aside_store =
                                        IF del.rename = "ok" THEN store ELSE {}]
                IN  IF Raises(del.end)
                    THEN /\ dir' = del.dir
                         /\ store' = store
                         /\ backups' = backups
                         /\ last' = [deleting EXCEPT
                                        !.outcome = del.end,
                                        !.cause = del.rmtree[Len(del.rmtree)]]
                    ELSE /\ backups' =
                              IF del.rename = "ok" /\ backups < MaxBackups
                              THEN backups + 1 ELSE backups
                         /\ IngestAndAnswer(deleting, pdf, question, use_existing_db,
                                            filter_by_current_pdf, del.dir,
                                            IF del.dir = "absent" THEN {} ELSE store)
        ELSE /\ backups' = backups
             /\ IngestAndAnswer(call, pdf, question, use_existing_db,
                                filter_by_current_pdf, dir, store)

\* A call of legal_analyst_tool with any document, question and flags.
LegalAnalystTool ==
    /\ Idle
    /\ \E pdf \in Pdfs, question \in Questions,
          use_existing_db \in BOOLEAN, filter_by_current_pdf \in BOOLEAN :
        LegalAnalystToolCall(pdf, question, use_existing_db, filter_by_current_pdf, FALSE)

\* The caller ingests the document it has just ingested once more, keeping
\* the existing store (use_existing_db=True).
IngestAgain ==
    /\ last.op = "legal_analyst_tool"
    /\ last.outcome = "return"
    /\ last.use_existing_db
    /\ ~last.again
    /\ \E question \in Questions, filter_by_current_pdf \in BOOLEAN :
        LegalAnalystToolCall(last.pdf, question, TRUE, filter_by_current_pdf, TRUE)

(* --------------------------- clear_database ---------------------------- *)

\* legal_tool.py:175-182  rmtree with no handler: it succeeds, or its error
\* reaches the caller with the directory as it was or partly removed.
ClearDatabase ==
    LET call == [NoCall EXCEPT !.op = "clear_database",
                               !.dir_before = dir, !.store_before = store]
    IN  /\ Idle
        /\ backups' = backups
        /\ IF dir # "absent"
           THEN \E result \in {"ok", "PermissionError", "OSError"}, d2 \in {dir, "partial"} :
                    IF result = "ok"
                    THEN /\ dir' = "absent"
                         /\ store' = {}
                         /\ last' = [call EXCEPT !.rmtree = <<"ok">>,
                                                 !.outcome = "return",
                                                 !.ret = [type |-> "bool", value |-> TRUE]]
                    ELSE /\ dir' = d2
                         /\ store' = store
                         /\ last' = [call EXCEPT !.rmtree = <<result>>,
                                                 !.outcome = result]
           ELSE /\ UNCHANGED <<dir, store>>
                /\ last' = [call EXCEPT !.outcome = "return",
                                        !.ret = [type |-> "bool", value |-> FALSE]]

(* --------------------------- query_all_pdfs ---------------------------- *)

\* ChunkDistribution with `source_files[source_name] = 1` for the increment.
ChunkDistribution_OnePerName(relevant_docs) ==
    LET sourced == { i \in 1..Len(relevant_docs) :
                        "source" \in DOMAIN relevant_docs[i].metadata }
        names == { Basename(relevant_docs[i].metadata.source) : i \in sourced }
    IN  [name \in names |-> 1]

\* legal_tool.py:206-210  source_files: for each basename among the
\* documents that have a source, how many of the documents carry it
ChunkDistribution(relevant_docs) ==
    LET sourced == { i \in 1..Len(relevant_docs) :
                        "source" \in DOMAIN relevant_docs[i].metadata }
        names == { Basename(relevant_docs[i].metadata.source) : i \in sourced }
    IN  [name \in names |->
            Cardinality({ i \in sourced :
                            Basename(relevant_docs[i].metadata.source) = name })]

\* legal_tool.py:185-238
QueryAllPdfs ==
    /\ Idle
    /\ \E question \in Questions, k \in Ks :
        LET call == [NoCall EXCEPT !.op = "query_all_pdfs", !.k = k,
                                   !.dir_before = dir, !.store_before = store]
        IN  last' =
              IF dir = "absent"
              THEN [call EXCEPT !.outcome = "return",
                                !.ret = [type |-> "dict", value |-> "No database found"]]
              ELSE IF dir = "partial"
              THEN [call EXCEPT !.outcome = "StoreOpenFailure"]
              ELSE LET relevant_docs == SimilaritySearch(store, question, k)
                   IN  [call EXCEPT
                          !.outcome = "return",
                          !.total_chunks = Count(store),
                          !.relevant_docs = relevant_docs,
                          !.chunk_distribution = ChunkDistribution(relevant_docs),
                          !.ret = [type |-> "dict", value |-> "answer"]]
    /\ UNCHANGED <<dir, store, backups>>

(* -------------------------- get_database_info -------------------------- *)

\* DatabaseInfo without the os.path.exists test of line 242.
DatabaseInfo_SkipsExistsCheck(d, size_mb) ==
    [exists |-> TRUE, total_chunks |-> "Check after loading", size_mb |-> size_mb]

\* legal_tool.py:242-263  the dictionary get_database_info returns (without
\* its constant 'path'); size_mb of a store that exists is whatever the
\* files on disk add up to
DatabaseInfo(d, size_mb) ==
    IF d = "absent"
    THEN [exists |-> FALSE, total_chunks |-> 0, size_mb |-> 0]
    ELSE [exists |-> TRUE, total_chunks |-> "Check after loading", size_mb |-> size_mb]

\* legal_tool.py:241-263
GetDatabaseInfo ==
    /\ Idle
    /\ \E size_mb \in {0, 1} :
        last' = [NoCall EXCEPT !.op = "get_database_info",
                               !.dir_before = dir, !.store_before = store,
                               !.outcome = "return",
                               !.ret = [type |-> "dict",
                                        value |-> DatabaseInfo(dir, size_mb)]]
    /\ UNCHANGED <<dir, store, backups>>

(* ----------------------- get_database_chunk_count ---------------------- *)

\* ChunkCount with `return 0` in the exception handler of line 283.
ChunkCount_ZeroOnFailure(d, entries, raised) ==
    IF d = "absent" \/ raised
    THEN [type |-> "int", value |-> 0]
    ELSE [type |-> "int", value |-> Count(entries)]

\* legal_tool.py:267-284  what get_database_chunk_count returns: 0 without
\* a store, the collection's count, or the text of the exception raised
\* inside the try block
ChunkCount(d, entries, raised) ==
    IF d = "absent"
    THEN [type |-> "int", value |-> 0]
    ELSE IF raised
    THEN [type |-> "str", value |-> "Error: ..."]
    ELSE [type |-> "int", value |-> Count(entries)]

\* GetDatabaseChunkCount opening the store without the os.path.exists test
\* of line 267: Chroma(persist_directory=...) creates a missing directory.
GetDatabaseChunkCount_OpensWithoutCheck ==
    /\ Idle
    /\ \E open_failed \in BOOLEAN :
        LET raised == dir = "partial" \/ open_failed
        IN  last' = [NoCall EXCEPT !.op = "get_database_chunk_count",
                                   !.dir_before = dir, !.store_before = store,
                                   !.outcome = "return",
                                   !.cause = IF raised THEN "StoreOpenFailure" ELSE "none",
                                   !.ret = ChunkCount("intact", store, raised)]
    /\ dir' = IF dir = "absent" THEN "intact" ELSE dir
    /\ UNCHANGED <<store, backups>>

\* legal_tool.py:266-284  opening the store or counting may raise (always
\* on a half-deleted directory); the handler returns the error as a string
GetDatabaseChunkCount ==
    /\ Idle
    /\ \E open_failed \in BOOLEAN :
        LET raised == dir # "absent" /\ (dir = "partial" \/ open_failed)
        IN  last' = [NoCall EXCEPT !.op = "get_database_chunk_count",
                                   !.dir_before = dir, !.store_before = store,
                                   !.outcome = "return",
                                   !.cause = IF raised THEN "StoreOpenFailure" ELSE "none",
                                   !.ret = ChunkCount(dir, store, raised)]
    /\ UNCHANGED <<dir, store, backups>>

Next ==
    \/ LegalAnalystTool
    \/ IngestAgain
    \/ ClearDatabase
    \/ QueryAllPdfs
    \/ GetDatabaseInfo
    \/ GetDatabaseChunkCount
    \/ Return

Spec == Init /\ [][Next]_vars

(* ------------------- a growing library of documents -------------------- *)

\* One-chunk documents over more contents than Pdfs has, so that a store
\* comes to hold more chunks than one retrieval returns.
LibraryPdfs == [path : Paths, text : { <<c>> : c \in 1..NumLibraryContents }]

\* A call of legal_analyst_tool that keeps the existing store
\* (use_existing_db=True), with any document of the library.
LegalAnalystToolOnLibrary ==
    /\ Idle
    /\ \E pdf \in LibraryPdfs, question \in Questions, filter_by_current_pdf \in BOOLEAN :
        LegalAnalystToolCall(pdf, question, TRUE, filter_by_current_pdf, FALSE)

NextLibrary ==
    \/ LegalAnalystToolOnLibrary
    \/ Return

SpecLibrary == Init /\ [][NextLibrary]_vars

(* ------------------------------ main.py -------------------------------- *)

\* The characters the auditor's output is written with: what a list of
\* numbers needs.
JsonChars == { "[", "]", ",", "1" }

\* Texts of at most MaxOutputLen characters.
Strs == UNION { [1..n -> JsonChars] : n \in 0..MaxOutputLen }

DigitChars == << "0", "1", "2", "3", "4", "5", "6", "7", "8", "9" >>

IsDigit(c) == \E d \in 1..Len(DigitChars) : DigitChars[d] = c

DigitOf(c) == (CHOOSE d \in 1..Len(DigitChars) : DigitChars[d] = c) - 1

RECURSIVE DigitsEnd(_, _)
\* The position after the run of digits that starts at i.
DigitsEnd(s, i) ==
    IF i <= Len(s) /\ IsDigit(s[i]) THEN DigitsEnd(s, i + 1) ELSE i

RECURSIVE Decimal(_, _, _)
\* The number the digits s[i..j-1] write.
Decimal(s, i, j) ==
    IF i >= j THEN 0 ELSE 10 * Decimal(s, i, j - 1) + DigitOf(s[j - 1])

RECURSIVE DecimalDigits(_)
\* str(n) of a natural number
DecimalDigits(n) ==
    IF n < 10 THEN << DigitChars[n + 1] >>
    ELSE DecimalDigits(n \div 10) \o << DigitChars[(n % 10) + 1] >>

RECURSIVE JsonDumps(_)
\* contracts.py:27  json.dumps of a list of numbers (without the
\* whitespace indent=2 adds)
JsonDumps(v) ==
    IF v = <<>> THEN << "[", "]" >>
    ELSE IF Len(v) = 1 THEN << "[" >> \o DecimalDigits(v[1]) \o << "]" >>
    ELSE LET front == JsonDumps(SubSeq(v, 1, Len(v) - 1))
         IN  SubSeq(front, 1, Len(front) - 1) \o << "," >>
                \o DecimalDigits(v[Len(v)]) \o << "]" >>

ParseFailed == [ok |-> FALSE, value |-> <<>>, next |-> 0]

RECURSIVE ParseValue(_, _)
RECURSIVE ParseElements(_, _, _)
\* A JSON value starting at position i: a number without a leading zero,
\* or a list of values; `next` is the position after it.
ParseValue(s, i) ==
    IF i > Len(s) THEN ParseFailed
    ELSE IF IsDigit(s[i])
    THEN LET j == IF s[i] = "0" THEN i + 1 ELSE DigitsEnd(s, i)
         IN  [ok |-> TRUE, value |-> Decimal(s, i, j), next |-> j]
    ELSE IF s[i] = "["
    THEN IF i + 1 <= Len(s) /\ s[i + 1] = "]"
         THEN [ok |-> TRUE, value |-> <<>>, next |-> i + 2]
         ELSE ParseElements(s, i + 1, <<>>)
    ELSE ParseFailed

\* The elements of a list after its "[", up to and including its "]".
ParseElements(s, i, acc) ==
    LET v == ParseValue(s, i)
    IN  IF ~v.ok \/ v.next > Len(s) THEN ParseFailed
        ELSE IF s[v.next] = ","
        THEN ParseElements(s, v.next + 1, Append(acc, v.value))
        ELSE IF s[v.next] = "]"
        THEN [ok |-> TRUE, value |-> Append(acc, v.value), next |-> v.next + 1]
        ELSE ParseFailed

\* main.py:33  json.loads(violations_json): the value, TypeError for what
\* is no string, JSONDecodeError for a string that is no JSON document
JsonLoads(violations_json) ==
    IF violations_json.type # "str"
    THEN [raised |-> TRUE, exc |-> "TypeError", value |-> <<>>]
    ELSE LET v == ParseValue(violations_json.text, 1)
         IN  IF v.ok /\ v.next = Len(violations_json.text) + 1
             THEN [raised |-> FALSE, exc |-> "none", value |-> v.value]
             ELSE [raised |-> TRUE, exc |-> "JSONDecodeError", value |-> <<>>]

\* issubclass among the exception classes of the model
IsSubclass(exc, cls) ==
    \/ exc = cls
    \/ cls = "Exception"
    \/ cls = "ValueError" /\ exc = "JSONDecodeError"

\* What a stage can raise: a ValueError, a subclass of it, something else.
StageErrors == { "ValueError", "JSONDecodeError", "KeyError" }

Briefs == { "brief-1", "brief-2" }

RepositoryUrls == { "repo-1", "repo-2" }

\* contracts.py:1-7  legal_analyst_tool as main.py sees it: a brief, or an
\* exception
Stage1Outcomes ==
    { [raised |-> FALSE, exc |-> "none", value |-> b] : b \in Briefs }
    \cup { [raised |-> TRUE, exc |-> e, value |-> ""] : e \in StageErrors }

NoOutput == [type |-> "NoneType", text |-> <<>>]

\* contracts.py:9-27  code_auditor_agent as main.py sees it: a text (the
\* dump of a violation list or not), something that is no text, or an
\* exception
Stage2Outcomes ==
    { [raised |-> FALSE, exc |-> "none", value |-> [type |-> "str", text |-> t]] :
        t \in Strs }
    \cup { [raised |-> FALSE, exc |-> "none", value |-> NoOutput] }
    \cup { [raised |-> TRUE, exc |-> e, value |-> NoOutput] : e \in StageErrors }

\* main.py:15-25  the two stages in order; `calls` lists the stage calls
\* made, with the arguments main.py passes
OrchestrateComplianceCheck(regulation_pdf, repository_url, stage1, stage2) ==
    LET call1 == [fn |-> "legal_analyst_tool",
                  regulation_pdf |-> regulation_pdf]
    IN  IF stage1.raised
        THEN [raised |-> TRUE, exc |-> stage1.exc, value |-> NoOutput,
              calls |-> << call1 >>]
        ELSE LET technical_brief == stage1.value
                 call2 == [fn |-> "code_auditor_agent",
                           repository_url |-> repository_url,
                           technical_brief |-> technical_brief]
             IN  IF stage2.raised
                 THEN [raised |-> TRUE, exc |-> stage2.exc, value |-> NoOutput,
                       calls |-> << call1, call2 >>]
                 ELSE [raised |-> FALSE, exc |-> "none", value |-> stage2.value,
                       calls |-> << call1, call2 >>]

\* OuterHandlers with `except Exception` written before `except ValueError`.
OuterHandlers_ExceptionFirst(exc) ==
    IF IsSubclass(exc, "Exception") THEN "RuntimeError" ELSE "ValueError"

\* main.py:37-40  the class the outer handlers raise for an exception that
\* reaches them
OuterHandlers(exc) ==
    IF IsSubclass(exc, "ValueError") THEN "ValueError" ELSE "RuntimeError"

\* main.py:27-40  how run_compliance_audit ends
RunComplianceAuditResult(regulation_pdf, repository_url, stage1, stage2) ==
    LET r == OrchestrateComplianceCheck(regulation_pdf, repository_url, stage1, stage2)
        violations_json == r.value
        parsed == JsonLoads(violations_json)
        base == [op |-> "run_compliance_audit",
                 regulation_pdf |-> regulation_pdf, repository_url |-> repository_url,
                 stage1 |-> stage1,
                 stage2 |-> IF stage1.raised THEN [raised |-> FALSE, exc |-> "none",
                                                   value |-> NoOutput]
                            ELSE stage2,
                 calls |-> r.calls]
    IN  IF r.raised
        THEN base @@ [outcome |-> OuterHandlers(r.exc), cause |-> r.exc,
                      ret |-> [type |-> "none", value |-> 0]]
        ELSE IF ~parsed.raised
        THEN base @@ [outcome |-> "return", cause |-> "none",
                      ret |-> [type |-> "json", value |-> parsed.value]]
        ELSE IF IsSubclass(parsed.exc, "JSONDecodeError")
        THEN base @@ [outcome |-> "return", cause |-> "none",
                      ret |-> [type |-> "dict",
                               value |-> [raw_output |-> violations_json.text]]]
        ELSE base @@ [outcome |-> OuterHandlers(parsed.exc), cause |-> parsed.exc,
                      ret |-> [type |-> "none", value |-> 0]]

\* A call of run_compliance_audit; the stages main.py imports leave the
\* store alone.
RunComplianceAudit ==
    /\ Idle
    /\ \E regulation_pdf \in Paths, repository_url \in RepositoryUrls,
          stage1 \in Stage1Outcomes, stage2 \in Stage2Outcomes :
        last' = RunComplianceAuditResult(regulation_pdf, repository_url, stage1, stage2)
    /\ UNCHANGED <<dir, store, backups>>

NextAudit ==
    \/ RunComplianceAudit
    \/ Return

SpecAudit == Init /\ [][NextAudit]_vars

(* ------------------------------ claims --------------------------------- *)

\* The most recent call was legal_analyst_tool.
IsIngestion == last.op = "legal_analyst_tool"

\* A batch of documents and ids went to the store in the most recent call.
Submitted == IsIngestion /\ last.submitted

\* The entries the store held when the batch of the most recent call was
\* submitted: those found at the start, or none in a store just created.
StoreAtSubmission ==
    IF last.branch = "accumulate" THEN last.store_before ELSE {}

\* C1: ingesting the same document a second time in accumulate mode
\* (use_existing_db=True both times) passes no chunk to the store, and the
\* store holds the same entries, and as many, as after the first ingestion.
C1_IdempotentIngestion ==
    (IsIngestion /\ last.again /\ last.outcome = "return") =>
        /\ last.new_chunks = <<>>
        /\ store = last.store_before
        /\ Count(store) = Count(last.store_before)

\* C2 as claimed: after a fresh-mode ingestion (the store is created anew)
\* the store counts as many entries as the document has chunks.
C2_FreshCountIsChunkCount ==
    (IsIngestion /\ last.branch = "create" /\ last.submitted) =>
        Count(store) = Len(last.pdf.text)

\* C2 as amended: after a fresh-mode ingestion that completes, the store
\* counts as many entries as the document has distinct chunk texts, which
\* is its number of chunks when no two chunks are identical; nothing of the
\* earlier store is left in it.
C2_FreshCountIsDistinctChunkCount ==
    (IsIngestion /\ last.branch = "create" /\ last.outcome = "return") =>
        /\ Count(store) = Cardinality(Range(last.pdf.text))
        /\ ~HasDuplicates(last.pdf.text) => Count(store) = Len(last.pdf.text)
        /\ \A e \in store : e.metadata = [source |-> last.pdf.path]

\* C2 witness: a fresh-mode ingestion of a three-chunk document completed
\* over a store that held other entries and had to be renamed aside.
C2_Witness ==
    /\ IsIngestion /\ last.branch = "create" /\ last.outcome = "return"
    /\ last.rename = "ok"
    /\ last.store_before # {}
    /\ Len(last.pdf.text) = 3
    /\ Count(store) = 3

\* C3: in accumulate mode a chunk is left out of the batch exactly when its
\* fingerprint was an id of the store when the ingestion began, and the
\* chunks submitted plus the chunks skipped are all the chunks.
C3_SkippedIffPresent ==
    (IsIngestion /\ last.branch = "accumulate"
        /\ last.outcome \in {"return", "DuplicateIDError"}) =>
        /\ \A i \in 1..Len(last.chunk_ids) :
              (last.chunk_ids[i] \notin Range(last.new_chunk_ids))
                  <=> (last.chunk_ids[i] \in StoredIds(last.store_before))
        /\ Len(last.new_chunks) + last.duplicates_skipped = Len(last.pdf.text)

\* C4: no two entries of the store share an id, and no batch submitted to
\* the store names an id twice or names an id the store already holds.
C4_UniqueFingerprints ==
    /\ \A e, f \in store : e.id = f.id => e = f
    /\ Submitted =>
          /\ ~HasDuplicates(last.new_chunk_ids)
          /\ Range(last.new_chunk_ids) \cap StoredIds(StoreAtSubmission) = {}

\* C5: after an accumulate ingestion the store counts what it counted
\* before plus the chunks reported as inserted.
C5_CountAccounting ==
    (IsIngestion /\ last.branch = "accumulate" /\ last.outcome = "return") =>
        Count(store) = Count(last.store_before) + Len(last.new_chunks)

\* The candidate's source ends with the basename of the document the most
\* recent call was given (the test of legal_tool.py:138).
MatchesCurrentPdf(doc) == EndsWith(SourceOf(doc), Basename(last.pdf.path))

\* The most recent call is a completed single-document retrieval.
FilteredRetrieval ==
    IsIngestion /\ last.outcome = "return" /\ last.filter_by_current_pdf

\* C6: single-document retrieval: when some candidate of the pool matches
\* the requested document, every returned chunk matches it; the first 5
\* candidates unfiltered are returned only when no candidate matches.
C6_FilteredUnlessNoneMatch ==
    FilteredRetrieval =>
        LET some_match == \E i \in 1..Len(last.all_relevant_docs) :
                              MatchesCurrentPdf(last.all_relevant_docs[i])
        IN  /\ Len(last.all_relevant_docs) <= PoolSize
            /\ some_match =>
                  /\ ~last.used_fallback
                  /\ \A i \in 1..Len(last.relevant_docs) :
                        MatchesCurrentPdf(last.relevant_docs[i])
            /\ last.used_fallback =>
                  /\ ~some_match
                  /\ last.relevant_docs = Take(last.all_relevant_docs, ResultLimit)

\* C6 witness: a retrieval whose pool held candidates of the requested
\* document and candidates of others, and that returned only the former.
C6_Witness ==
    /\ FilteredRetrieval
    /\ ~last.used_fallback
    /\ \E i \in 1..Len(last.all_relevant_docs) :
          ~MatchesCurrentPdf(last.all_relevant_docs[i])
    /\ Len(last.relevant_docs) >= 2
    /\ Len(last.relevant_docs) < Len(last.all_relevant_docs)

\* The values of a chunk_distribution added up.
RECURSIVE SumOfCounts(_)
SumOfCounts(distribution) ==
    IF DOMAIN distribution = {} THEN 0
    ELSE LET name == CHOOSE n \in DOMAIN distribution : TRUE
         IN  distribution[name]
               + SumOfCounts([n \in DOMAIN distribution \ {name} |-> distribution[n]])

\* The most recent call is a query_all_pdfs that searched a store.
AllPdfsRetrieval ==
    /\ last.op = "query_all_pdfs"
    /\ last.outcome = "return"
    /\ last.dir_before # "absent"

\* C7 as claimed: query_all_pdfs retrieves at most k chunks, and the counts
\* of chunk_distribution add up to the number of chunks retrieved.
C7_DistributionSumsToRetrieved ==
    AllPdfsRetrieval =>
        /\ Len(last.relevant_docs) <= last.k
        /\ SumOfCounts(last.chunk_distribution) = Len(last.relevant_docs)

\* C7 as amended: query_all_pdfs retrieves at most k chunks, and the counts
\* of chunk_distribution add up to the number of retrieved chunks whose
\* metadata has a source: all of them when every retrieved chunk has one.
C7_DistributionSumsToSourced ==
    AllPdfsRetrieval =>
        LET sourced == { i \in 1..Len(last.relevant_docs) :
                            "source" \in DOMAIN last.relevant_docs[i].metadata }
        IN  /\ Len(last.relevant_docs) <= last.k
            /\ SumOfCounts(last.chunk_distribution) = Cardinality(sourced)
            /\ Cardinality(sourced) = Len(last.relevant_docs) =>
                  SumOfCounts(last.chunk_distribution) = Len(last.relevant_docs)

\* C7 witness: a query that retrieved k chunks out of a larger store, two
\* of them of one document and one without a source.
C7_Witness ==
    /\ AllPdfsRetrieval
    /\ Len(last.relevant_docs) = last.k
    /\ Count(last.store_before) > last.k
    /\ \E i \in 1..Len(last.relevant_docs) :
          "source" \notin DOMAIN last.relevant_docs[i].metadata
    /\ \E name \in DOMAIN last.chunk_distribution : last.chunk_distribution[name] = 2

\* C8: a fresh-mode reset calls rmtree at most 3 times; it renames the
\* directory aside only after the third call raised PermissionError, as the
\* two before it; and after a rename that succeeds the call completes with
\* a new store at the original path, the old store kept whole under the
\* new name.
C8_ResetUnderLock ==
    IsIngestion =>
        /\ Len(last.rmtree) <= max_retries
        /\ last.rename # "none" =>
              /\ Len(last.rmtree) = max_retries
              /\ \A i \in 1..Len(last.rmtree) : last.rmtree[i] = "PermissionError"
        /\ last.rename = "ok" =>
              /\ last.outcome = "return"
              /\ last.branch = "create"
              /\ dir = "intact"
              /\ last.aside = last.dir_before
              /\ last.aside_store = last.store_before

\* C9: when the third rmtree has failed like the two before it and the
\* rename fails too, the call raises the error of line 62, which carries the
\* PermissionError of the deletion; nothing was loaded, no batch went to the
\* store, and the store's entries are untouched.
C9_RenameFailureEndsTheCall ==
    (IsIngestion /\ last.rename = "failed") =>
        /\ Len(last.rmtree) = max_retries
        /\ \A i \in 1..Len(last.rmtree) : last.rmtree[i] = "PermissionError"
        /\ last.outcome = "StoreUnavailable"
        /\ last.cause = "PermissionError"
        /\ ~last.loaded
        /\ ~last.submitted
        /\ last.branch = "none"
        /\ store = last.store_before
        /\ dir # "absent"

\* C9 witness: a fresh-mode call over a store with entries ended by the
\* failure of both deletion and rename.
C9_Witness ==
    /\ IsIngestion
    /\ last.rename = "failed"
    /\ last.outcome = "StoreUnavailable"
    /\ last.store_before # {}
    /\ ~last.use_existing_db

\* C10: a call that ran rmtree on the store directory and left it partly
\* deleted ended with the error of line 62 (StoreUnavailable).
C10_HalfDeletedOnlyWithStoreUnavailable ==
    (last.op \in {"legal_analyst_tool", "clear_database"}
        /\ last.rmtree # <<>> /\ dir = "partial") =>
        last.outcome = "StoreUnavailable"

\* C11: in accumulate mode a failure of the id lookup reaches the caller as
\* an error, and no chunk is submitted to the store in that call: the
\* failure is not read as "none of the ids exists".
C11_LookupFailurePropagates ==
    (IsIngestion /\ last.branch = "accumulate" /\ last.lookup_failed) =>
        /\ last.outcome \notin {"return", "none"}
        /\ ~last.submitted
        /\ last.new_chunks = <<>>
        /\ store = last.store_before

ReadOnlyOps == {"query_all_pdfs", "get_database_info", "get_database_chunk_count"}

\* C12: with no store present, get_database_info reports exists = false and
\* size 0, get_database_chunk_count returns the integer 0, and after these
\* calls and after query_all_pdfs there is still no store.
C12_AbsentStoreStaysAbsent ==
    (last.op \in ReadOnlyOps /\ last.dir_before = "absent") =>
        /\ last.outcome = "return"
        /\ dir = "absent"
        /\ store = {}
        /\ last.op = "get_database_info" =>
              /\ last.ret.value.exists = FALSE
              /\ last.ret.value.size_mb = 0
        /\ last.op = "get_database_chunk_count" =>
              /\ last.ret.type = "int"
              /\ last.ret.value = 0

\* get_database_chunk_count has answered 0 where there is no store
C12_Witness ==
    /\ last.op = "get_database_chunk_count"
    /\ last.dir_before = "absent"
    /\ last.ret.type = "int"
    /\ dir = "absent"

\* C13 (as stated): clear_database, query_all_pdfs, get_database_info and
\* get_database_chunk_count leave the store's lifecycle state and its
\* entries as they found them; only the ingestion moves the store.
C13_OnlyIngestionChangesTheStore ==
    last.op \in ReadOnlyOps \cup {"clear_database"} =>
        /\ dir = last.dir_before
        /\ store = last.store_before

\* C13 (amended): query_all_pdfs, get_database_info and
\* get_database_chunk_count leave the store's lifecycle state and its
\* entries as they found them; clear_database removes the store when it
\* returns True, leaves it alone when it returns False, and when the
\* deletion raises the store is as before or half-deleted.
C13_OnlyIngestionAndClearChangeTheStore ==
    /\ last.op \in ReadOnlyOps =>
          /\ dir = last.dir_before
          /\ store = last.store_before
    /\ last.op = "clear_database" =>
          IF last.outcome = "return"
          THEN IF last.ret.value
               THEN last.dir_before # "absent" /\ dir = "absent" /\ store = {}
               ELSE last.dir_before = "absent" /\ dir = "absent" /\ store = {}
          ELSE /\ last.dir_before # "absent"
               /\ dir \in {last.dir_before, "partial"}
               /\ store = last.store_before

\* query_all_pdfs has answered from a populated store
C13_Witness ==
    /\ last.op = "query_all_pdfs"
    /\ last.outcome = "return"
    /\ last.dir_before = "intact"
    /\ last.store_before # {}
    /\ last.relevant_docs # <<>>

\* C16: on an existing store get_database_chunk_count always returns: the
\* store's integer entry count when opening and counting succeed, and a
\* string (never an integer, so never the count 0) when either raises.
C16_CountOrTypedFailure ==
    (last.op = "get_database_chunk_count" /\ last.dir_before # "absent") =>
        /\ last.outcome = "return"
        /\ IF last.cause = "none"
           THEN /\ last.ret.type = "int"
                /\ last.ret.value = Count(last.store_before)
           ELSE last.ret.type = "str"

\* opening an existing store has failed and the call has returned
C16_Witness ==
    /\ last.op = "get_database_chunk_count"
    /\ last.dir_before = "intact"
    /\ last.cause # "none"
    /\ last.outcome = "return"

\* C15: every store entry written by legal_analyst_tool (the entries that
\* carry a source) is stored under the fingerprint of its own content, and
\* in every ingestion the i-th id submitted is the fingerprint of the i-th
\* chunk submitted, also after the chunks already present were filtered out.
C15_FingerprintContentCorrespondence ==
    /\ \A e \in store :
          "source" \in DOMAIN e.metadata => e.id = Fingerprint(e.page_content)
    /\ IsIngestion =>
          /\ Len(last.new_chunk_ids) = Len(last.new_chunks)
          /\ \A i \in 1..Len(last.new_chunks) :
                last.new_chunk_ids[i] = Fingerprint(last.new_chunks[i].page_content)

\* an accumulate ingestion has skipped a chunk that was present and has
\* added one that was not
C15_Witness ==
    /\ IsIngestion
    /\ last.branch = "accumulate"
    /\ ~last.lookup_failed
    /\ last.outcome = "return"
    /\ last.duplicates_skipped > 0
    /\ last.new_chunks # <<>>
    /\ \E e \in store : e.id \in Range(last.new_chunk_ids)

RECURSIVE IsSubsequence(_, _)
\* s is t with some elements left out, the others in t's order
IsSubsequence(s, t) ==
    IF s = <<>> THEN TRUE
    ELSE IF t = <<>> THEN FALSE
    ELSE IF Head(s) = Head(t) THEN IsSubsequence(Tail(s), Tail(t))
    ELSE IsSubsequence(s, Tail(t))

\* The positions of the candidates that match the requested document.
MatchingPositions ==
    { i \in 1..Len(last.all_relevant_docs) : MatchesCurrentPdf(last.all_relevant_docs[i]) }

\* C14: single-document retrieval only filters and truncates: the returned
\* chunks are an order-preserving subsequence of the candidate sequence, at
\* most 5 of them, with or without the fallback; without the fallback the
\* n-th returned chunk is the n-th matching candidate, for the first 5 (or
\* all, if fewer) matching candidates.
C14_FilterAndTruncateOnly ==
    FilteredRetrieval =>
        /\ IsSubsequence(last.relevant_docs, last.all_relevant_docs)
        /\ Len(last.relevant_docs) <= ResultLimit
        /\ ~last.used_fallback =>
              /\ Len(last.relevant_docs) =
                    IF Cardinality(MatchingPositions) < ResultLimit
                    THEN Cardinality(MatchingPositions) ELSE ResultLimit
              /\ \A n \in 1..Len(last.relevant_docs) :
                    \E i \in MatchingPositions :
                        /\ Cardinality({ j \in MatchingPositions : j < i }) = n - 1
                        /\ last.relevant_docs[n] = last.all_relevant_docs[i]

\* more than 5 candidates matched, behind a first candidate that did not,
\* and 5 were returned
C14_Witness ==
    /\ FilteredRetrieval
    /\ ~last.used_fallback
    /\ Cardinality(MatchingPositions) > ResultLimit
    /\ 1 \notin MatchingPositions
    /\ Len(last.relevant_docs) = ResultLimit

\* Lists of violations whose dumps are among the auditor's texts.
ViolationLists == UNION { [1..n -> {1, 11}] : n \in 0..2 }

IsAudit == last.op = "run_compliance_audit"

\* C17: run_compliance_audit ends in one of three ways.  When both stages
\* return and the auditor's text is valid JSON, it returns the parsed
\* value (the violation list that was dumped); when the text is not valid
\* JSON it returns {"raw_output": text} and raises nothing; otherwise it
\* raises ValueError if a stage raised a ValueError, and RuntimeError for
\* any other exception.  The auditor is called only after the legal
\* analysis has returned, and with the brief it returned.
C17_ThreeOutcomes ==
    IsAudit =>
        LET stages_returned == ~last.stage1.raised /\ ~last.stage2.raised
            output == last.stage2.value
            is_text == stages_returned /\ output.type = "str"
            valid == is_text /\ ParseValue(output.text, 1).ok
                             /\ ParseValue(output.text, 1).next = Len(output.text) + 1
            raised == IF last.stage1.raised THEN last.stage1.exc
                      ELSE IF last.stage2.raised THEN last.stage2.exc
                      ELSE IF ~is_text THEN "TypeError"
                      ELSE "none"
        IN  /\ last.outcome \in {"return", "ValueError", "RuntimeError"}
            /\ valid =>
                  /\ last.outcome = "return"
                  /\ last.ret.type = "json"
                  /\ \A v \in ViolationLists :
                        output.text = JsonDumps(v) => last.ret.value = v
            /\ (is_text /\ ~valid) =>
                  /\ last.outcome = "return"
                  /\ last.ret.type = "dict"
                  /\ last.ret.value = [raw_output |-> output.text]
            /\ last.outcome = "return" => is_text
            /\ last.outcome = "ValueError" <=>
                  raised \in {"ValueError", "JSONDecodeError"}
            /\ last.outcome = "RuntimeError" <=>
                  raised \in {"KeyError", "TypeError"}
            /\ Len(last.calls) \in {1, 2}
            /\ last.calls[1].fn = "legal_analyst_tool"
            /\ last.calls[1].regulation_pdf = last.regulation_pdf
            /\ Len(last.calls) = 2 <=> ~last.stage1.raised
            /\ Len(last.calls) = 2 =>
                  /\ last.calls[2].fn = "code_auditor_agent"
                  /\ last.calls[2].technical_brief = last.stage1.value
                  /\ last.calls[2].repository_url = last.repository_url

\* the auditor's text was no JSON document and came back as raw_output
C17_Witness ==
    /\ IsAudit
    /\ last.outcome = "return"
    /\ last.ret.type = "dict"
    /\ Len(last.calls) = 2
    /\ last.stage2.value.text # <<>>

====
